---- MODULE Spec2Model ----
(***************************************************************************)
(* monthly_candles: monthly OHLCV candle retrieval, calendar expansion and *)
(* on-disk caching (src/src/monthly_candles/core.py).                      *)
(*                                                                         *)
(* Conventions of the model                                                *)
(*  - A month string "YYYY-MM" is the pair <<year, month>>; a datetime is  *)
(*    the record [year, month, day] (always midnight).                     *)
(*  - A timestamp is an integer number of hours since 1970-01-01T00:00     *)
(*    (the source uses milliseconds; every instant of the model is a whole *)
(*    hour, and 32-bit integers cannot hold epoch milliseconds).           *)
(*  - A nullable Float64 cell is a set: {} is null, {v} is the value v.    *)
(***************************************************************************)
EXTENDS Integers, Sequences, FiniteSets

VARIABLES
    cacheDir,     \* TRUE iff the directory _CACHE_DIR exists on disk
    files,        \* cache path -> stored table (the parquet files in _CACHE_DIR)
    pc,           \* position of the caller: "idle", "loop", "returned", "raised"
    req,          \* arguments of the running / last fetch call
    symbols,      \* fetch: the normalised symbol list
    months,       \* fetch: the list returned by _get_months
    pos,          \* fetch: number of (symbol, month) pairs already processed
    candles,      \* fetch: the list of per-pair tables collected so far
    result,       \* table returned by the last fetch (<<>> when none)
    error,        \* exception raised by the last fetch ("" when none)
    calls,        \* per fetch call: the keys _fetch_monthly_candles was invoked with
    downloads,    \* per fetch call: the [url, response] of every _download_zip_file call
    stored,       \* per fetch call: the paths _save_to_cache wrote
    computed,     \* key -> successful download+normalise by use_cache=True since the last clear_cache
    before,       \* the disk state (directory and files) when the fetch call began
    evicted,      \* the cache paths the last clear_cache removed (until the next call ends)
    in_df,        \* expansion harness: the parsed table
    in_timeframe, \* expansion harness: the timeframe
    in_month,     \* expansion harness: the month string
    out_df,       \* expansion harness: the expanded table
    applied       \* expansion harness: TRUE once _add_missing_timestamps ran

vars == <<cacheDir, files, pc, req, symbols, months, pos, candles, result, error,
          calls, downloads, stored, computed, before, evicted,
          in_df, in_timeframe, in_month, out_df, applied>>

fetchVars == <<cacheDir, files, pc, req, symbols, months, pos, candles, result, error,
               calls, downloads, stored, computed, before, evicted>>

expandVars == <<in_df, in_timeframe, in_month, out_df, applied>>

----------------------------------------------------------------------------
(* Bounds *)

MaxRows == 2        \* rows of a parsed table in the expansion harness
MaxPrice == 2       \* distinct price levels of a row of a parsed table
MaxSymbols == 2     \* length of a symbol list passed to fetch

Symbols == {"A", "B"}

\* timeframes of the remote archive that the expansion harness covers
Timeframes == {"1h", "1d", "1w"}

\* month strings the expansion harness covers (28, 29 and 31 days, a year end)
Months == {<<2023, 2>>, <<2023, 12>>, <<2024, 1>>, <<2024, 2>>}

----------------------------------------------------------------------------
(* Calendar arithmetic: datetime, relativedelta, epoch conversion *)

IsLeap(y) == (y % 4 = 0 /\ y % 100 # 0) \/ y % 400 = 0

DaysInMonth(y, m) ==
    IF m = 2 THEN (IF IsLeap(y) THEN 28 + 1 ELSE 28)
    ELSE IF m \in {4, 6, 9, 11} THEN 30 ELSE 31

LeapsBefore(y) == ((y - 1) \div 4) - ((y - 1) \div 100) + ((y - 1) \div 400)

RECURSIVE DaysBeforeMonth(_, _)
DaysBeforeMonth(y, m) ==
    IF m = 1 THEN 0 ELSE DaysBeforeMonth(y, m - 1) + DaysInMonth(y, m - 1)

\* datetime -> timestamp (hours since the epoch)
Timestamp(dt) ==
    ( 365 * (dt.year - 1970) + (LeapsBefore(dt.year) - LeapsBefore(1970))
      + DaysBeforeMonth(dt.year, dt.month) + (dt.day - 1) ) * 24

\* datetime.strptime(month, "%Y-%m")
strptime(month) == [year |-> month[1], month |-> month[2], day |-> 1]

\* datetime.strftime("%Y-%m")
strftime(dt) == <<dt.year, dt.month>>

\* dt + relativedelta(months=1), for a datetime on the first of a month
AddMonth(dt) ==
    IF dt.month = 12
    THEN [year |-> dt.year + 1, month |-> 1, day |-> dt.day]
    ELSE [year |-> dt.year, month |-> dt.month + 1, day |-> dt.day]

\* dt1 <= dt2 on datetimes
DateLeq(d1, d2) ==
    \/ d1.year < d2.year
    \/ d1.year = d2.year /\ d1.month < d2.month
    \/ d1.year = d2.year /\ d1.month = d2.month /\ d1.day <= d2.day

\* duration of a polars interval string, in hours
Interval(timeframe) ==
    CASE timeframe = "1h" -> 1
      [] timeframe = "1d" -> 24
      [] timeframe = "1w" -> 7 * 24

\* pl.datetime_range(start, end, interval, closed="left", eager=True)
datetime_range(start, end, interval) ==
    [k \in 1..((end - start + interval - 1) \div interval) |-> start + (k - 1) * interval]

----------------------------------------------------------------------------
(* Tables *)

null == {}

Float(v) == {v}

\* one row of the table _csv_to_dataframe returns
Row(t, v) ==
    [timestamp |-> t, open |-> Float(v), high |-> Float(v + 1), low |-> Float(v - 1),
     close |-> Float(v), volume |-> Float(10 * v)]

\* the row a left join emits for a left timestamp without a match
NullRow(t) ==
    [timestamp |-> t, open |-> null, high |-> null, low |-> null,
     close |-> null, volume |-> null]

\* the rows of df whose join key equals t, in df order
Matches(df, t) == SelectSeq(df, LAMBDA r : r.timestamp = t)

\* timestamps.join(df, on="timestamp", how="left") for the left rows lo..hi:
\* left order is kept, a left row is emitted once per matching right row, or
\* once with nulls when no right row matches
RECURSIVE join_left(_, _, _, _)
join_left(timestamps, df, lo, hi) ==
    IF lo > hi THEN <<>>
    ELSE IF lo = hi
    THEN (IF Matches(df, timestamps[lo]) = <<>>
          THEN <<NullRow(timestamps[lo])>>
          ELSE Matches(df, timestamps[lo]))
    ELSE join_left(timestamps, df, lo, (lo + hi) \div 2)
         \o join_left(timestamps, df, ((lo + hi) \div 2) + 1, hi)

\* the expected calendar of (timeframe, month)
timestamp_range(timeframe, month) ==
    datetime_range(Timestamp(strptime(month)),
                   Timestamp(AddMonth(strptime(month))),
                   Interval(timeframe))

_add_missing_timestamps(df, timeframe, month) ==
    join_left(timestamp_range(timeframe, month), df, 1,
              Len(timestamp_range(timeframe, month)))

----------------------------------------------------------------------------
(* Expansion harness: _add_missing_timestamps applied to bounded inputs *)

\* timestamps a parsed row may carry: one bucket before the month, the first
\* two buckets of the month, and the first instant after the month
CandidateTimestamps(timeframe, month) ==
    LET s == Timestamp(strptime(month))
        e == Timestamp(AddMonth(strptime(month)))
        d == Interval(timeframe)
    IN  {s - d, s, s + d, e}

RowsOf(timeframe, month) ==
    {Row(t, v) : t \in CandidateTimestamps(timeframe, month), v \in 1..MaxPrice}

SeqsUpTo(S, n) == UNION {[1..k -> S] : k \in 0..n}

ExpandInit ==
    /\ in_timeframe \in Timeframes
    /\ in_month \in Months
    /\ in_df \in SeqsUpTo(RowsOf(in_timeframe, in_month), MaxRows)
    /\ out_df = <<>>
    /\ applied = FALSE
    /\ cacheDir = FALSE
    /\ files = <<>>
    /\ pc = "idle"
    /\ req = [symbols |-> [is_str |-> TRUE, value |-> ""], timeframe |-> "",
              start |-> <<>>, end |-> <<>>, use_cache |-> TRUE]
    /\ symbols = <<>>
    /\ months = <<>>
    /\ pos = 0
    /\ candles = <<>>
    /\ result = <<>>
    /\ error = ""
    /\ calls = <<>>
    /\ downloads = <<>>
    /\ stored = <<>>
    /\ computed = <<>>
    /\ before = [cacheDir |-> FALSE, files |-> <<>>]
    /\ evicted = {}

Expand ==
    /\ ~applied
    /\ out_df' = _add_missing_timestamps(in_df, in_timeframe, in_month)
    /\ applied' = TRUE
    /\ UNCHANGED <<in_df, in_timeframe, in_month>>
    /\ UNCHANGED fetchVars

ExpandNext == Expand

----------------------------------------------------------------------------
(* Remote archive: what the transport may answer for one url *)

\* months a fetch request may name (a year end lies between them)
RequestMonths == {<<2023, 12>>, <<2024, 1>>}

RequestTimeframes == {"1w"}

\* the absent end argument (None, or any falsy string)
None == <<>>

_BASE_URL == "https://data.binance.vision/data/spot/monthly/klines"

_CACHE_DIR == ".monthly_candles"

_COLUMNS == <<"timestamp", "open", "high", "low", "close", "volume">>

\* one headerless 12-column line of the remote CSV (_SCHEMA)
RawRow(t, v) ==
    [timestamp |-> t, open |-> v, high |-> v + 1, low |-> v - 1, close |-> v,
     volume |-> 10 * v, close_time |-> t + 1, quote_asset_volume |-> 10 * v * v,
     number_of_trades |-> v, taker_buy_volume |-> v,
     taker_buy_quote_asset_volume |-> v * v, ignore |-> 0]

\* a CSV of the archive: the month's second and first bucket, in that order;
\* the remaining buckets have no trades
RemoteCsv(timeframe, month, v) ==
    LET s == Timestamp(strptime(month))
        d == Interval(timeframe)
    IN  [parsable |-> TRUE, rows |-> <<RawRow(s + d, v + 1), RawRow(s, v)>>]

\* the archive publishes a month's file in one of two revisions
Revisions == {1, 5}

\* answers of requests.get(url): a failed request, bytes that are no zip
\* archive, an archive whose first member does not parse, a good archive
Responses(timeframe, month) ==
    {[ok |-> FALSE, valid |-> FALSE, members |-> <<>>],
     [ok |-> TRUE, valid |-> FALSE, members |-> <<>>],
     [ok |-> TRUE, valid |-> TRUE, members |-> <<[parsable |-> FALSE, rows |-> <<>>]>>]}
    \cup {[ok |-> TRUE, valid |-> TRUE, members |-> <<RemoteCsv(timeframe, month, v)>>] :
            v \in Revisions}

----------------------------------------------------------------------------
(* The pipeline for one key *)

_construct_url(symbol, timeframe, month) ==
    [base |-> _BASE_URL, folder |-> <<symbol, timeframe>>,
     file_name |-> <<symbol, timeframe, month>>, ext |-> "zip"]

\* the path _get_cache_path returns (its makedirs is part of _fetch_monthly_candles)
_get_cache_path(symbol, timeframe, month) ==
    [folder |-> _CACHE_DIR, file_name |-> <<symbol, timeframe, month>>, ext |-> "parquet"]

\* df.select(_COLUMNS) after the timestamp cast, one parsed row per CSV line
_csv_to_dataframe(csv_file) ==
    [i \in DOMAIN csv_file.rows |->
        [timestamp |-> csv_file.rows[i].timestamp,
         open |-> Float(csv_file.rows[i].open),
         high |-> Float(csv_file.rows[i].high),
         low |-> Float(csv_file.rows[i].low),
         close |-> Float(csv_file.rows[i].close),
         volume |-> Float(csv_file.rows[i].volume)]]

_add_symbol_column(df, symbol) ==
    [i \in DOMAIN df |->
        [symbol |-> symbol, timestamp |-> df[i].timestamp, open |-> df[i].open,
         high |-> df[i].high, low |-> df[i].low, close |-> df[i].close,
         volume |-> df[i].volume]]

\* SourceError with a CSV that does not parse read as an empty table
SourceError_parse_swallowed(response) ==
    IF ~response.ok THEN "RuntimeError"
    ELSE IF ~response.valid THEN "BadZipFile"
    ELSE ""

\* the exception _fetch_data_from_source raises on response, "" when none
SourceError(response) ==
    IF ~response.ok THEN "RuntimeError"
    ELSE IF ~response.valid THEN "BadZipFile"
    ELSE IF ~response.members[1].parsable THEN "ComputeError"
    ELSE ""

\* _fetch_data_from_source on the transport's response: the exception it
\* raises ("" when none) and the table it returns
_fetch_data_from_source(symbol, timeframe, month, response) ==
    IF SourceError(response) # ""
    THEN [error |-> SourceError(response), df |-> <<>>]
    ELSE [error |-> "",
          df |-> _add_symbol_column(
                    _add_missing_timestamps(_csv_to_dataframe(response.members[1]),
                                            timeframe, month),
                    symbol)]

\* CacheHit with the use_cache flag negated
CacheHit_flag_negated(use_cache, cache_path, disk) ==
    ~use_cache /\ cache_path \in DOMAIN disk

\* the condition of the cache branch of _fetch_monthly_candles
CacheHit(use_cache, cache_path, disk) == use_cache /\ cache_path \in DOMAIN disk

_load_from_cache(cache_path, disk) == disk[cache_path]

\* _save_to_cache that writes nothing
_save_to_cache_dropped(df, cache_path, disk) == disk

_save_to_cache(df, cache_path, disk) ==
    [p \in DOMAIN disk \cup {cache_path} |-> IF p = cache_path THEN df ELSE disk[p]]

\* CacheAfter that writes the (empty) table of a failed source fetch as well
CacheAfter_saves_on_error(use_cache, fetched, cache_path, disk) ==
    IF use_cache
    THEN [p \in DOMAIN disk \cup {cache_path} |->
            IF p = cache_path THEN fetched.df ELSE disk[p]]
    ELSE disk

\* the files after the miss branch of _fetch_monthly_candles: the table is
\* saved only when the source raised nothing and use_cache is set
CacheAfter(use_cache, fetched, cache_path, disk) ==
    IF use_cache /\ fetched.error = ""
    THEN _save_to_cache(fetched.df, cache_path, disk)
    ELSE disk

----------------------------------------------------------------------------
(* The range request *)

\* the while loop of _get_months
RECURSIVE months_loop(_, _)
months_loop(current_date, end_date) ==
    IF DateLeq(current_date, end_date)
    THEN <<strftime(current_date)>> \o months_loop(AddMonth(current_date), end_date)
    ELSE <<>>

\* _get_months that swaps an inverted range instead of returning no month
_get_months_swapped(start, end) ==
    IF end # None /\ ~DateLeq(strptime(start), strptime(end))
    THEN months_loop(strptime(end), strptime(start))
    ELSE months_loop(strptime(start),
                     IF end # None THEN strptime(end) ELSE strptime(start))

_get_months(start, end) ==
    months_loop(strptime(start), IF end # None THEN strptime(end) ELSE strptime(start))

\* PairAt with the loops exchanged: months outside, symbols inside
PairAt_months_outer(syms, mths, n) ==
    <<syms[(n % Len(syms)) + 1], mths[(n \div Len(syms)) + 1]>>

\* the (symbol, month) pair the nested loops of fetch reach after n pairs
PairAt(syms, mths, n) ==
    <<syms[(n \div Len(mths)) + 1], mths[(n % Len(mths)) + 1]>>

\* number of pairs the nested loops of fetch visit
Total(syms, mths) == Len(syms) * Len(mths)

\* pl.concat(tables, how="vertical") of a non-empty list
RECURSIVE concat(_)
concat(tables) ==
    IF tables = <<>> THEN <<>> ELSE Head(tables) \o concat(Tail(tables))

\* the symbols argument: a bare string or a list of strings
SymbolInputs ==
    {[is_str |-> TRUE, value |-> s] : s \in Symbols}
    \cup {[is_str |-> FALSE, value |-> l] :
            l \in UNION {[1..k -> Symbols] : k \in 1..MaxSymbols}}

\* the value of req while no fetch call is running
NoRequest ==
    [symbols |-> [is_str |-> TRUE, value |-> ""], timeframe |-> "", start |-> None,
     end |-> None, use_cache |-> TRUE]

Count(k) == IF k \in DOMAIN computed THEN computed[k] ELSE 0

Init ==
    /\ cacheDir = FALSE
    /\ files = <<>>
    /\ pc = "idle"
    /\ req = NoRequest
    /\ symbols = <<>>
    /\ months = <<>>
    /\ pos = 0
    /\ candles = <<>>
    /\ result = <<>>
    /\ error = ""
    /\ calls = <<>>
    /\ downloads = <<>>
    /\ stored = <<>>
    /\ computed = <<>>
    /\ before = [cacheDir |-> FALSE, files |-> <<>>]
    /\ evicted = {}
    /\ in_df = <<>>
    /\ in_timeframe = "1w"
    /\ in_month = <<2023, 12>>
    /\ out_df = <<>>
    /\ applied = TRUE

\* fetch, up to the first iteration of its loops
fetch ==
    /\ pc = "idle"
    /\ \E s \in SymbolInputs, timeframe \in RequestTimeframes, start \in RequestMonths,
          end \in RequestMonths \cup {None}, use_cache \in BOOLEAN :
          /\ req' = [symbols |-> s, timeframe |-> timeframe, start |-> start,
                     end |-> end, use_cache |-> use_cache]
          /\ symbols' = (IF s.is_str THEN <<s.value>> ELSE s.value)
          /\ months' = _get_months(start, end)
    /\ pc' = "loop"
    /\ pos' = 0
    /\ candles' = <<>>
    /\ result' = <<>>
    /\ error' = ""
    /\ calls' = <<>>
    /\ downloads' = <<>>
    /\ stored' = <<>>
    /\ before' = [cacheDir |-> cacheDir, files |-> files]
    /\ UNCHANGED <<cacheDir, files, computed, evicted>>
    /\ UNCHANGED expandVars

\* one iteration of the loops of fetch: a whole _fetch_monthly_candles call
_fetch_monthly_candles ==
    /\ pc = "loop"
    /\ pos < Total(symbols, months)
    /\ LET symbol == PairAt(symbols, months, pos)[1]
           month == PairAt(symbols, months, pos)[2]
           key == <<symbol, req.timeframe, month>>
           cache_path == _get_cache_path(symbol, req.timeframe, month)
       IN
       /\ calls' = Append(calls, key)
       /\ cacheDir' = TRUE
       /\ IF CacheHit(req.use_cache, cache_path, files)
          THEN /\ candles' = Append(candles, _load_from_cache(cache_path, files))
               /\ pos' = pos + 1
               /\ UNCHANGED <<files, pc, error, downloads, stored, computed>>
          ELSE \E response \in Responses(req.timeframe, month) :
               LET fetched == _fetch_data_from_source(symbol, req.timeframe, month, response)
                   saved == CacheAfter(req.use_cache, fetched, cache_path, files)
               IN
               /\ downloads' = Append(downloads,
                        [url |-> _construct_url(symbol, req.timeframe, month),
                         response |-> response])
               /\ files' = saved
               /\ stored' = (IF saved # files THEN Append(stored, cache_path) ELSE stored)
               /\ computed' =
                    (IF req.use_cache /\ fetched.error = ""
                     THEN [k \in DOMAIN computed \cup {key} |->
                             IF k = key
                             THEN (IF Count(k) < 2 THEN Count(k) + 1 ELSE 2)
                             ELSE computed[k]]
                     ELSE computed)
               /\ IF fetched.error # ""
                  THEN /\ pc' = "raised"
                       /\ error' = fetched.error
                       /\ UNCHANGED <<pos, candles>>
                  ELSE /\ candles' = Append(candles, fetched.df)
                       /\ pos' = pos + 1
                       /\ UNCHANGED <<pc, error>>
    /\ UNCHANGED <<req, symbols, months, result, before, evicted>>
    /\ UNCHANGED expandVars

\* the end of fetch: pl.concat of the collected tables
fetch_return ==
    /\ pc = "loop"
    /\ pos = Total(symbols, months)
    /\ IF candles = <<>>
       THEN /\ pc' = "raised"
            /\ error' = "ValueError"
            /\ UNCHANGED result
       ELSE /\ pc' = "returned"
            /\ result' = concat(candles)
            /\ UNCHANGED error
    /\ UNCHANGED <<cacheDir, files, req, symbols, months, pos, candles,
                   calls, downloads, stored, computed, before, evicted>>
    /\ UNCHANGED expandVars

\* clear_cache with the existence test negated: an existing directory stays
clear_cache_test_negated ==
    /\ pc = "idle"
    /\ computed' = <<>>
    /\ evicted' = (IF cacheDir THEN DOMAIN files ELSE evicted)
    /\ UNCHANGED <<cacheDir, files, before>>
    /\ UNCHANGED <<pc, req, symbols, months, pos, candles, result, error,
                   calls, downloads, stored>>
    /\ UNCHANGED expandVars

clear_cache ==
    /\ pc = "idle"
    /\ IF cacheDir
       THEN /\ cacheDir' = FALSE
            /\ files' = <<>>
       ELSE UNCHANGED <<cacheDir, files>>
    /\ computed' = <<>>
    /\ evicted' = (IF cacheDir THEN DOMAIN files ELSE evicted)
    /\ before' = [cacheDir |-> cacheDir', files |-> files']
    /\ UNCHANGED <<pc, req, symbols, months, pos, candles, result, error,
                   calls, downloads, stored>>
    /\ UNCHANGED expandVars

\* the caller takes the table or the exception; the frame of fetch is gone
fetch_exit ==
    /\ pc \in {"returned", "raised"}
    /\ pc' = "idle"
    /\ symbols' = <<>>
    /\ months' = <<>>
    /\ pos' = 0
    /\ candles' = <<>>
    /\ result' = <<>>
    /\ error' = ""
    /\ calls' = <<>>
    /\ downloads' = <<>>
    /\ stored' = <<>>
    /\ req' = NoRequest
    /\ before' = [cacheDir |-> cacheDir, files |-> files]
    /\ evicted' = {}
    /\ UNCHANGED <<cacheDir, files, computed>>
    /\ UNCHANGED expandVars

Next ==
    \/ fetch
    \/ _fetch_monthly_candles
    \/ fetch_return
    \/ fetch_exit
    \/ clear_cache

Spec == Init /\ [][Next]_vars

\* the expansion harness: bounded inputs, then _add_missing_timestamps
SpecExpand == ExpandInit /\ [][ExpandNext]_vars

----------------------------------------------------------------------------
(* Vocabulary of the properties *)

\* number of the month of a month string, counted from year 0
MonthIndex(month) == 12 * month[1] + (month[2] - 1)

\* the symbols of the running request, as a list
ReqSymbols == IF req.symbols.is_str THEN <<req.symbols.value>> ELSE req.symbols.value

\* the running request names an end that precedes its start
Inverted ==
    /\ pc # "idle"
    /\ req.end # None
    /\ MonthIndex(req.end) < MonthIndex(req.start)

\* a _fetch_monthly_candles call is about to run
InStep == pc = "loop" /\ pos < Total(symbols, months)

\* the key and the cache path of the call that is about to run
CurrentKey ==
    <<PairAt(symbols, months, pos)[1], req.timeframe, PairAt(symbols, months, pos)[2]>>

PathOf(key) == [folder |-> _CACHE_DIR, file_name |-> key, ext |-> "parquet"]

\* the transport's answer does not lead to a table
IsFailure(response) ==
    \/ ~response.ok
    \/ ~response.valid
    \/ response.members = <<>>
    \/ ~response.members[1].parsable

SourceErrors == {"RuntimeError", "BadZipFile", "ComputeError"}

\* first instant of a month, first instant after it, bucket width
MonthStart(month) == Timestamp([year |-> month[1], month |-> month[2], day |-> 1])

MonthEnd(month) == MonthStart(month) + 24 * DaysInMonth(month[1], month[2])

OnCalendar(t, timeframe, month) ==
    /\ MonthStart(month) <= t
    /\ t < MonthEnd(month)
    /\ (t - MonthStart(month)) % Interval(timeframe) = 0

\* number of rows before the k-th table of a list of tables
RECURSIVE Offset(_, _)
Offset(tables, k) == IF k = 1 THEN 0 ELSE Offset(tables, k - 1) + Len(tables[k - 1])

----------------------------------------------------------------------------
(* Properties of _fetch_monthly_candles, fetch and clear_cache (Spec) *)

\* C1 - cache short-circuit: a _fetch_monthly_candles call with use_cache=True
\* whose key has a cache entry returns the stored table and makes no
\* _download_zip_file call.
C1_CacheShortCircuit ==
    [][ (InStep /\ req.use_cache /\ PathOf(CurrentKey) \in DOMAIN files)
        => /\ downloads' = downloads
           /\ candles' = Append(candles, files[PathOf(CurrentKey)])
           /\ pc' = "loop"
           /\ files' = files ]_vars

\* a use_cache=True call has returned with every key served from the cache
C1_Witness ==
    pc = "returned" /\ req.use_cache /\ calls # <<>> /\ downloads = <<>>

\* C4 - range ordering: a fetch with start <= end that returns has invoked
\* _fetch_monthly_candles once per (symbol, month) pair, symbols in the given
\* order outside and the inclusive ascending months inside, and its table is
\* the concatenation of the per-pair tables in that order; a repeated symbol
\* is processed and emitted again.
C4_RangeOrdering ==
    (pc = "returned" /\ ~Inverted) =>
        LET first == MonthIndex(req.start)
            last == IF req.end = None THEN first ELSE MonthIndex(req.end)
            n == last - first + 1
        IN  /\ Len(calls) = Len(ReqSymbols) * n
            /\ \A i \in 1..Len(ReqSymbols), j \in 1..n :
                  /\ calls[(i - 1) * n + j][1] = ReqSymbols[i]
                  /\ calls[(i - 1) * n + j][2] = req.timeframe
                  /\ calls[(i - 1) * n + j][3][2] \in 1..12
                  /\ MonthIndex(calls[(i - 1) * n + j][3]) = first + j - 1
            /\ Len(candles) = Len(calls)
            /\ \A k \in 1..Len(candles) : \A r \in 1..Len(candles[k]) :
                  /\ candles[k][r].symbol = calls[k][1]
                  /\ OnCalendar(candles[k][r].timestamp, calls[k][2], calls[k][3])
                  /\ result[Offset(candles, k) + r] = candles[k][r]
            /\ Len(result) = Offset(candles, Len(candles) + 1)

\* a call over two different symbols and two months (across a year end) returned
C4_Witness ==
    /\ pc = "returned"
    /\ Len(symbols) = 2 /\ symbols[1] # symbols[2]
    /\ Len(months) = 2 /\ months[1][1] < months[2][1]
    /\ Len(calls) = 4

\* C6 - clear_cache removes the namespace and every entry, also when there is
\* none; no other operation removes an entry or the namespace; and a
\* use_cache=True call for a key without an entry goes to the transport.
C6_ClearCache ==
    [][ /\ clear_cache => (~cacheDir' /\ DOMAIN files' = {})
        /\ ~clear_cache => ((cacheDir => cacheDir') /\ DOMAIN files \subseteq DOMAIN files')
        /\ (InStep /\ PathOf(CurrentKey) \notin DOMAIN files)
             => /\ Len(downloads') = Len(downloads) + 1
                /\ downloads'[Len(downloads')].url.file_name = CurrentKey ]_vars

\* after a clear_cache that removed entries, a use_cache=True call downloaded
\* one of the removed keys again
C6_Witness ==
    /\ pc = "returned"
    /\ req.use_cache
    /\ \E i \in DOMAIN downloads : PathOf(downloads[i].url.file_name) \in evicted

\* C7 - a transport, archive or parse failure for one key aborts the whole
\* range request: fetch raises that error, returns no table, and the failing
\* key is the last one _fetch_monthly_candles is invoked with.
C7_FailureAborts ==
    \A i \in DOMAIN downloads :
        IsFailure(downloads[i].response) =>
            /\ pc = "raised"
            /\ error \in SourceErrors
            /\ result = <<>>
            /\ i = Len(downloads)
            /\ Len(calls) = pos + 1
            /\ calls[Len(calls)] = downloads[i].url.file_name

\* a request of several keys failed on a key that is neither first nor last
C7_Witness ==
    /\ pc = "raised"
    /\ error = "BadZipFile"
    /\ Len(calls) >= 2
    /\ Len(calls) < Total(symbols, months)

C9_ComputeOnce ==
    [][ /\ \A k \in DOMAIN computed' :
              computed'[k] <= 1 /\ PathOf(k) \in DOMAIN files'
        /\ (InStep /\ req.use_cache /\ Count(CurrentKey) >= 1)
             => (downloads' = downloads /\ computed' = computed /\ pc' = "loop") ]_vars

\* on an empty cache, a use_cache=True call with a symbol listed twice returned
\* after one download per month
C9_Witness ==
    /\ pc = "returned"
    /\ req.use_cache
    /\ before.files = <<>>
    /\ Len(symbols) = 2 /\ symbols[1] = symbols[2]
    /\ Len(calls) = 2 * Len(months)
    /\ Len(downloads) = Len(months)

\* C10 (as stated) - inverted range: fetch invokes _fetch_monthly_candles for
\* no key and yields an empty table rather than an error.
C10_InvertedEmptyResult ==
    (Inverted /\ pc \in {"returned", "raised"}) =>
        (calls = <<>> /\ pc = "returned" /\ error = "" /\ result = <<>>)

\* C10 (amended) - inverted range: _get_months returns no month, fetch invokes
\* _fetch_monthly_candles for no key and makes no download, and the call then
\* ends with the ValueError pl.concat raises on an empty list, not with a table.
C10_InvertedRaises ==
    Inverted =>
        /\ months = <<>>
        /\ calls = <<>>
        /\ downloads = <<>>
        /\ result = <<>>
        /\ pc \in {"loop", "raised"}
        /\ pc = "raised" => error = "ValueError"

\* a call with an inverted range has ended
C10_Witness == Inverted /\ pc = "raised" /\ error = "ValueError"

\* C5 - use_cache=False: every key is downloaded, also when it has an entry,
\* and the cache storage (namespace and entries) is after the call what it
\* was before the call.
C5_NoCacheUntouched ==
    (pc = "returned" /\ ~req.use_cache) =>
        /\ Len(downloads) = Len(calls)
        /\ files = before.files
        /\ cacheDir = before.cacheDir

----------------------------------------------------------------------------
(* Properties of _add_missing_timestamps (SpecExpand) *)

\* C2 - calendar completeness: for any parsed table the output holds every
\* timeframe-spaced timestamp of [start_of_month, start_of_next_month) exactly
\* once and no other, strictly ascending; 1h and 2023-02 give 672 rows.
C2_CalendarCompleteness ==
    applied =>
        /\ out_df # <<>>
        /\ out_df[1].timestamp = MonthStart(in_month)
        /\ \A i \in 1..(Len(out_df) - 1) :
              out_df[i + 1].timestamp = out_df[i].timestamp + Interval(in_timeframe)
        /\ out_df[Len(out_df)].timestamp < MonthEnd(in_month)
        /\ out_df[Len(out_df)].timestamp + Interval(in_timeframe) >= MonthEnd(in_month)
        /\ (in_timeframe = "1h" /\ in_month = <<2023, 2>>) => Len(out_df) = 672

\* C3 - join correctness: for a parsed table whose timestamps all lie on the
\* calendar, the output carries every row of the table, is null at every
\* timestamp the table lacks, and has as many rows as the calendar has buckets.
C3_JoinCorrectness ==
    (applied /\ \A i \in DOMAIN in_df :
                    OnCalendar(in_df[i].timestamp, in_timeframe, in_month)) =>
        /\ \A i \in DOMAIN in_df : \E j \in DOMAIN out_df : out_df[j] = in_df[i]
        /\ \A j \in DOMAIN out_df :
              (\A i \in DOMAIN in_df : in_df[i].timestamp # out_df[j].timestamp)
                 => out_df[j] = NullRow(out_df[j].timestamp)
        /\ Len(out_df) = Cardinality({t \in MonthStart(in_month)..(MonthEnd(in_month) - 1) :
                                        OnCalendar(t, in_timeframe, in_month)})

====
